---------------------------- MODULE Spec2Model ----------------------------
(***************************************************************************)
(* Model of backend/src/fix_interfaces.py: the script that patches C#      *)
(* entity files declaring ISoftDeletableEntity / IArchivableEntity with    *)
(* the missing member blocks.                                              *)
(*                                                                         *)
(* A file's text is a sequence of tokens.  Each token stands for one of    *)
(* the literal strings the script looks for, or for a piece of text the    *)
(* script cannot tell apart from any other:                                *)
(*   "nl"     the newline character                                        *)
(*   "sp"     a non-empty run of blanks or tabs                            *)
(*   "lb"     {                        "rb"     }                          *)
(*   "doc"    /// <summary>            "enum"   public enum                *)
(*   "using"  the keyword using followed by one blank                      *)
(*   "ns"     the keyword namespace                                        *)
(*   "common" CoreApp.Domain.Entities.Common                               *)
(*   "semi"   a ; that directly follows "common"                           *)
(*   "ISoft"  ISoftDeletableEntity     "IArch"  IArchivableEntity          *)
(*   "sigS"   public bool Excluido                                         *)
(*   "sigA"   public DateTime UltimaMovimentacao                           *)
(*   "x"      any other text of one line: it holds a non-blank character,  *)
(*            no brace and none of the strings above                       *)
(***************************************************************************)
EXTENDS Integers, Sequences, FiniteSets

VARIABLES
    dirExists,        \* os.path.exists(entities_dir)
    fs,               \* the .cs and other files under entities_dir, in os.walk order
    pc,               \* where the running code stands
    idx,              \* number of files the loops of main have visited
    files_processed,  \* main's counter
    stdout,           \* the lines printed so far
    calls             \* one record per call of process_entity_file (open() observer)

vars == <<dirExists, fs, pc, idx, files_processed, stdout, calls>>

-----------------------------------------------------------------------------
(* Bounds of the model *)

MaxLines == 3
MaxCalls == 2
MaxFiles == 3

-----------------------------------------------------------------------------
(* Strings *)

WS == {"sp", "nl"}

Max(S) == CHOOSE m \in S : \A n \in S : n <= m

Min(S) == CHOOSE m \in S : \A n \in S : m <= n

\* sub in s (Python's substring test)
Contains(s, sub) ==
    \E i \in 1..(Len(s) - Len(sub) + 1) :
        \A j \in 1..Len(sub) : s[i + j - 1] = sub[j]

\* s.startswith(prefix)
StartsWith(s, prefix) ==
    /\ Len(s) >= Len(prefix)
    /\ \A j \in 1..Len(prefix) : s[j] = prefix[j]

RECURSIVE SplitRange(_, _, _)
\* s[a..b].split('\n').  The range is halved, and the last line of the left
\* half continues in the first line of the right half.
SplitRange(s, a, b) ==
    IF a > b THEN << <<>> >>
    ELSE IF a = b THEN (IF s[a] = "nl" THEN << <<>>, <<>> >> ELSE << <<s[a]>> >>)
    ELSE LET m == (a + b) \div 2
             left == SplitRange(s, a, m)
             right == SplitRange(s, m + 1, b)
         IN SubSeq(left, 1, Len(left) - 1)
                \o << left[Len(left)] \o right[1] >>
                \o Tail(right)

\* s.split('\n')
Split(s) == SplitRange(s, 1, Len(s))

RECURSIVE JoinRange(_, _, _)
\* '\n'.join(lines[a..b]), by halves
JoinRange(lines, a, b) ==
    IF a > b THEN <<>>
    ELSE IF a = b THEN lines[a]
    ELSE LET m == (a + b) \div 2
         IN JoinRange(lines, a, m) \o <<"nl">> \o JoinRange(lines, m + 1, b)

\* '\n'.join(lines)
Join(lines) == JoinRange(lines, 1, Len(lines))

RECURSIVE LStrip(_)
LStrip(s) == IF s # <<>> /\ Head(s) \in WS THEN LStrip(Tail(s)) ELSE s

RECURSIVE RStrip(_)
RStrip(s) ==
    IF s # <<>> /\ s[Len(s)] \in WS THEN RStrip(SubSeq(s, 1, Len(s) - 1)) ELSE s

\* s.strip()
Strip(s) == RStrip(LStrip(s))

-----------------------------------------------------------------------------
(* The literals of the script *)

MARKER_SOFT == <<"ISoft">>
MARKER_ARCH == <<"IArch">>
SIG_SOFT == <<"sigS">>
SIG_ARCH == <<"sigA">>
IMPORT_LINE == <<"using", "common", "semi">>
COMMON_NS == <<"common">>

BlankLine == <<>>
DocOpen == <<"sp", "doc">>                       \*     /// <summary>
TextLine == <<"sp", "x">>                        \* a comment, attribute, header or statement
AutoProp == <<"sp", "x", "lb", "x", "rb">>       \*     public T P { get; set; }
OpenLine == <<"sp", "lb">>                       \*     {
CloseLine == <<"sp", "rb">>                      \*     }

SOFT_DELETE_TEMPLATE ==
    Join(<< BlankLine,                                   \* 11
            <<"sp", "x", "ISoft">>,                      \* 12
            BlankLine,                                   \* 13
            DocOpen, TextLine, TextLine,                 \* 14-16
            <<"sp", "sigS", "sp", "lb", "x", "rb", "x">>,\* 17
            BlankLine,                                   \* 18
            DocOpen, TextLine, TextLine,                 \* 19-21
            AutoProp,                                    \* 22
            BlankLine,                                   \* 23
            DocOpen, TextLine, TextLine,                 \* 24-26
            TextLine,                                    \* 27
            AutoProp,                                    \* 28
            BlankLine,                                   \* 29
            DocOpen, TextLine, TextLine,                 \* 30-32
            TextLine,                                    \* 33
            AutoProp,                                    \* 34
            BlankLine,                                   \* 35
            DocOpen, TextLine, TextLine,                 \* 36-38
            TextLine,                                    \* 39
            OpenLine,                                    \* 40
            TextLine, TextLine, TextLine, TextLine,      \* 41-44
            CloseLine,                                   \* 45
            BlankLine,                                   \* 46
            DocOpen, TextLine, TextLine,                 \* 47-49
            TextLine,                                    \* 50
            OpenLine,                                    \* 51
            TextLine, TextLine, TextLine, TextLine,      \* 52-55
            CloseLine >>)                                \* 56

ARCHIVABLE_TEMPLATE ==
    Join(<< BlankLine,                                   \* 59
            <<"sp", "x", "IArch">>,                      \* 60
            BlankLine,                                   \* 61
            DocOpen, TextLine, TextLine,                 \* 62-64
            <<"sp", "x", "lb", "x", "rb", "x">>,         \* 65
            BlankLine,                                   \* 66
            DocOpen, TextLine, TextLine,                 \* 67-69
            AutoProp,                                    \* 70
            BlankLine,                                   \* 71
            DocOpen, TextLine, TextLine,                 \* 72-74
            <<"sp", "sigA", "sp", "lb", "x", "rb", "x">>,\* 75
            BlankLine,                                   \* 76
            DocOpen, TextLine, TextLine,                 \* 77-79
            TextLine,                                    \* 80
            OpenLine,                                    \* 81
            TextLine,                                    \* 82
            CloseLine >>)                                \* 83

-----------------------------------------------------------------------------
(* process_entity_file: the import step (lines 93-111) *)

\* line.strip().startswith('using ') and not line.strip().startswith('namespace').
\* strip() also removes the blank that ends a bare 'using ', so the keyword
\* has to be followed by something.
IsUsingLine(line) ==
    /\ StartsWith(Strip(line), <<"using">>)
    /\ Len(Strip(line)) > 1
    /\ ~ StartsWith(Strip(line), <<"ns">>)

IsOtherLine(line) == ~ IsUsingLine(line)

NeedsImport(content) ==
    /\ Contains(content, MARKER_SOFT) \/ Contains(content, MARKER_ARCH)
    /\ ~ Contains(content, IMPORT_LINE)

\* if not any('CoreApp.Domain.Entities.Common' in line for line in using_lines)
LacksCommon(using_lines) ==
    ~ \E k \in 1..Len(using_lines) : Contains(using_lines[k], COMMON_NS)

AddImport(content) ==
    LET lines == Split(content)
        using_lines == SelectSeq(lines, IsUsingLine)
        other_lines == SelectSeq(lines, IsOtherLine)
        with_import == IF LacksCommon(using_lines)
                       THEN Append(using_lines, IMPORT_LINE)
                       ELSE using_lines
    IN Join(with_import \o other_lines)

ImportStep(content) ==
    IF NeedsImport(content) THEN AddImport(content) ELSE content

-----------------------------------------------------------------------------
(* process_entity_file: the insertion point (lines 117-122, 128-133).      *)
(* The pattern, with W for any run of whitespace (possibly empty) and N    *)
(* for a newline, is  (W) N (W) } (W N W doc | W N W enum | W N W end)     *)
(* where end is the end of the text.                                       *)

RECURSIVE RunEnd(_, _)
\* the first index from i on that holds no whitespace (Len(s) + 1 if none)
RunEnd(s, i) == IF i > Len(s) \/ s[i] \notin WS THEN i ELSE RunEnd(s, i + 1)

\* group 3 matched from index j: \s*\n\s* and then one of the three ends
TailMatches(s, j) ==
    LET f == RunEnd(s, j)
    IN /\ \E k \in j..(f - 1) : s[k] = "nl"
       /\ \/ f > Len(s)
          \/ s[f] \in {"doc", "enum"}

\* the lengths group 1 may have in a match that starts at index i
GroupOneLens(s, i) ==
    { k \in 0..(RunEnd(s, i) - i) :
        /\ i + k <= Len(s)
        /\ s[i + k] = "nl"
        /\ LET e == RunEnd(s, i + k + 1)
           IN /\ e <= Len(s)
              /\ s[e] = "rb"
              /\ TailMatches(s, e + 1) }

\* the indices where the pattern matches
MatchStarts(s) == { i \in 1..Len(s) : GroupOneLens(s, i) # {} }

\* re.search(pattern, content), the leftmost match: start is match.start(),
\* group1 is len(match.group(1)) (the first W is greedy)
Search(content) ==
    LET starts == MatchStarts(content)
    IN IF starts = {} THEN [found |-> FALSE, start |-> 0, group1 |-> 0]
       ELSE LET i == Min(starts)
            IN [found |-> TRUE, start |-> i - 1,
                group1 |-> Max(GroupOneLens(content, i))]

\* content[:insert_pos] + template + content[insert_pos:]
Splice(content, insert_pos, template) ==
    SubSeq(content, 1, insert_pos) \o template
        \o SubSeq(content, insert_pos + 1, Len(content))

InsertTemplate(content, template) ==
    LET match == Search(content)
    IN IF match.found
       THEN Splice(content, match.start + match.group1, template)
       ELSE content

-----------------------------------------------------------------------------
(* process_entity_file: the two gaps (lines 113-134) and the whole *)

\* the gap test without its signature half
NeedsSoftMarkerOnly(content) == Contains(content, MARKER_SOFT)

NeedsSoft(content) ==
    Contains(content, MARKER_SOFT) /\ ~ Contains(content, SIG_SOFT)

\* the gap test without its signature half
NeedsArchMarkerOnly(content) == Contains(content, MARKER_ARCH)

NeedsArch(content) ==
    Contains(content, MARKER_ARCH) /\ ~ Contains(content, SIG_ARCH)

SoftStep(content) ==
    IF NeedsSoft(content) THEN InsertTemplate(content, SOFT_DELETE_TEMPLATE)
    ELSE content

ArchStep(content) ==
    IF NeedsArch(content) THEN InsertTemplate(content, ARCHIVABLE_TEMPLATE)
    ELSE content

Transform(original) == ArchStep(SoftStep(ImportStep(original)))

\* a writer that does not compare
ChangedAlways(content, original) == TRUE

\* if content != original_content
Changed(content, original) == content # original

\* One call of process_entity_file on file i.  The record appended to calls
\* holds what was read, whether the file was opened for writing and the
\* value returned.
ProcessEntityFile(i) ==
    \E content \in {Transform(fs[i].text)} :
        LET original == fs[i].text
            changed == Changed(content, original)
        IN /\ fs' = IF changed THEN [fs EXCEPT ![i].text = content] ELSE fs
           /\ stdout' = IF changed
                        THEN Append(stdout, [kind |-> "Processado", path |-> i])
                        ELSE stdout
           /\ calls' = Append(calls, [file |-> i, original |-> original,
                                      wrote |-> changed, ret |-> changed])

-----------------------------------------------------------------------------
(* Input files *)

LineKinds ==
    { BlankLine,
      <<"using", "x">>,                         \* using System;
      <<"using", "common", "x">>,               \* using CoreApp.Domain.Entities.Common.Enums;
      IMPORT_LINE,                              \* using CoreApp.Domain.Entities.Common;
      <<"x", "ISoft", "sp", "lb">>,             \* class Foo : ISoftDeletableEntity {
      <<"x", "IArch", "sp", "lb">>,             \* class Foo : IArchivableEntity {
      <<"x", "ISoft", "x", "IArch", "sp", "lb">>,
      <<"rb">>,                                 \* }
      CloseLine,                                \*     }
      DocOpen,                                  \*     /// <summary>
      <<"enum", "x">>,                          \* public enum Kind
      <<"sp", "sigS", "x">>,                    \*     public bool Excluido { get; set; }
      <<"sp", "sigA", "x">>,
      <<"sp", "using", "x">>,                   \*     using var s = Open();
      <<"ns", "x">> }                           \* namespace CoreApp.Domain;

Texts(n) == UNION { { Join(ls) : ls \in [1..k -> LineKinds] } : k \in 0..n }

-----------------------------------------------------------------------------
(* Calls of process_entity_file on one file *)

InitFile ==
    /\ dirExists = TRUE
    /\ \E t \in Texts(MaxLines) : fs = << [cs |-> TRUE, text |-> t] >>
    /\ pc = "unit"
    /\ idx = 0
    /\ files_processed = 0
    /\ stdout = <<>>
    /\ calls = <<>>

CallProcess ==
    /\ pc = "unit"
    /\ Len(calls) < MaxCalls
    /\ ProcessEntityFile(1)
    /\ UNCHANGED <<dirExists, pc, idx, files_processed>>

Spec == InitFile /\ [][CallProcess]_vars

-----------------------------------------------------------------------------
(* main (lines 145-163).  fs lists the files of the tree in the order the  *)
(* two loops of lines 156-157 visit them; cs tells whether the name ends   *)
(* in '.cs'.                                                               *)

ClassOnly == Join(<< <<"x", "sp", "lb">>, <<"rb">>, BlankLine >>)
SoftEntity == Join(<< <<"x", "ISoft", "sp", "lb">>, <<"rb">>, BlankLine >>)
BothEntity ==
    Join(<< <<"x", "ISoft", "x", "IArch", "sp", "lb">>, <<"rb">>, BlankLine >>)
ArchNoBrace == Join(<< IMPORT_LINE, <<"x", "IArch", "sp", "lb">>, <<"rb">> >>)

\* what the files of the tree may hold: the four above and a patched entity
TreeTexts ==
    { ClassOnly, SoftEntity, BothEntity, ArchNoBrace, Transform(SoftEntity) }

Files == [cs : BOOLEAN, text : TreeTexts]

Trees == UNION { [1..n -> Files] : n \in 0..MaxFiles }

InitMain ==
    /\ dirExists \in BOOLEAN
    /\ fs \in Trees
    /\ ~ dirExists => fs = <<>>
    /\ pc = "start"
    /\ idx = 0
    /\ files_processed = 0
    /\ stdout = <<>>
    /\ calls = <<>>

entities_dir == "CoreApp.Domain/Entities"

\* a main that does not look for the directory
DirNeverMissing(exists) == FALSE

\* not os.path.exists(entities_dir)
DirMissing(exists) == ~ exists

\* lines 149-151
MainMissing ==
    /\ pc = "start"
    /\ DirMissing(dirExists)
    /\ stdout' = Append(stdout, [kind |-> "nao encontrado", dir |-> entities_dir])
    /\ pc' = "done"
    /\ UNCHANGED <<dirExists, fs, idx, files_processed, calls>>

\* lines 149, 153
MainEnter ==
    /\ pc = "start"
    /\ ~ DirMissing(dirExists)
    /\ files_processed' = 0
    /\ pc' = "walk"
    /\ UNCHANGED <<dirExists, fs, idx, stdout, calls>>

\* file.endswith('.cs')
IsEntityFile(file) == file.cs

\* lines 157-161, a file whose name ends in '.cs'
VisitEntityFile ==
    /\ pc = "walk"
    /\ idx < Len(fs)
    /\ IsEntityFile(fs[idx + 1])
    /\ ProcessEntityFile(idx + 1)
    /\ files_processed' = IF calls'[Len(calls')].ret
                          THEN files_processed + 1
                          ELSE files_processed
    /\ idx' = idx + 1
    /\ UNCHANGED <<dirExists, pc>>

\* lines 157-158, any other file
SkipOtherFile ==
    /\ pc = "walk"
    /\ idx < Len(fs)
    /\ ~ IsEntityFile(fs[idx + 1])
    /\ idx' = idx + 1
    /\ UNCHANGED <<dirExists, fs, pc, files_processed, stdout, calls>>

\* line 163
MainSummary ==
    /\ pc = "walk"
    /\ idx = Len(fs)
    /\ stdout' = Append(stdout, [kind |-> "concluido", count |-> files_processed])
    /\ pc' = "done"
    /\ UNCHANGED <<dirExists, fs, idx, files_processed, calls>>

NextMain ==
    \/ MainMissing
    \/ MainEnter
    \/ VisitEntityFile
    \/ SkipOtherFile
    \/ MainSummary

SpecMain == InitMain /\ [][NextMain]_vars

-----------------------------------------------------------------------------
(* What the properties below read off a state *)

\* the text the k-th call left in its file
OutputOf(k) ==
    IF \E n \in (k + 1)..Len(calls) : calls[n].file = calls[k].file
    THEN calls[Min({ n \in (k + 1)..Len(calls) : calls[n].file = calls[k].file })].original
    ELSE fs[calls[k].file].text

Count(s, t) == Cardinality({ i \in 1..Len(s) : s[i] = t })

\* where sub occurs in s
Occurrences(s, sub) ==
    { i \in 1..(Len(s) - Len(sub) + 1) :
        \A j \in 1..Len(sub) : s[i + j - 1] = sub[j] }

\* the k-th call inserted neither template
NothingInserted(k) ==
    /\ Count(OutputOf(k), "sigS") = Count(calls[k].original, "sigS")
    /\ Count(OutputOf(k), "sigA") = Count(calls[k].original, "sigA")

-----------------------------------------------------------------------------
(* C1 *)

\* C1: a second application of process_entity_file to the text the first
\* one produced leaves that text as it is, does not open the file for
\* writing and returns False.
C1_Idempotent ==
    \A k \in 2..Len(calls) :
        /\ ~ calls[k].wrote
        /\ ~ calls[k].ret
        /\ OutputOf(k) = calls[k].original

\* The first call found no insertion point and rewrote the import lines
\* only; the second call has run on its output.
C1_Witness ==
    /\ Len(calls) = 2
    /\ calls[1].wrote
    /\ NeedsSoft(calls[2].original)
    /\ Contains(calls[2].original, IMPORT_LINE)

-----------------------------------------------------------------------------
(* C8 *)

\* C8: a call inserts a contract's template only into a text that has the
\* contract's marker name and lacks its signature; a text with neither
\* marker name is returned as it is and not written.
C8_NoChangeWithoutGap ==
    \A k \in 1..Len(calls) :
        LET o == calls[k].original
            out == OutputOf(k)
        IN /\ (~ Contains(o, MARKER_SOFT) \/ Contains(o, SIG_SOFT))
                => Count(out, "sigS") = Count(o, "sigS")
           /\ (~ Contains(o, MARKER_ARCH) \/ Contains(o, SIG_ARCH))
                => Count(out, "sigA") = Count(o, "sigA")
           /\ (~ Contains(o, MARKER_SOFT) /\ ~ Contains(o, MARKER_ARCH))
                => out = o /\ ~ calls[k].wrote /\ ~ calls[k].ret

\* A call on a text that has a marker name, its signature and an insertion
\* point, and that needs the other contract no more.
C8_Witness ==
    \E k \in 1..Len(calls) :
        /\ Contains(calls[k].original, MARKER_ARCH)
        /\ Contains(calls[k].original, SIG_ARCH)
        /\ Search(calls[k].original).found

-----------------------------------------------------------------------------
(* C7, C9: main *)

\* C7: main reads and writes only files whose name ends in '.cs'; a call
\* writes its file exactly when the transformed text differs from the text
\* read, and returns True exactly then; the count of the summary line is
\* the number of files written.
C7_WriteOnlyOnChange ==
    /\ \A k \in 1..Len(calls) :
         LET c == calls[k]
         IN /\ IsEntityFile(fs[c.file])
            /\ c.wrote <=> (Transform(c.original) # c.original)
            /\ c.wrote <=> (fs[c.file].text # c.original)
            /\ c.ret <=> c.wrote
            /\ fs[c.file].text = Transform(c.original)
    /\ (pc = "done" /\ dirExists) =>
         /\ stdout[Len(stdout)].kind = "concluido"
         /\ stdout[Len(stdout)].count =
               Cardinality({ k \in 1..Len(calls) : calls[k].wrote })

\* main has ended after a call that wrote its file, a call that did not and
\* a file that is no '.cs' file.
C7_Witness ==
    /\ pc = "done"
    /\ \E k \in 1..Len(calls) : calls[k].wrote
    /\ \E k \in 1..Len(calls) : ~ calls[k].wrote
    /\ \E i \in 1..Len(fs) : ~ IsEntityFile(fs[i])

\* C9: without the directory main calls process_entity_file for no file,
\* prints the one line that names the directory, never reaches the loop or
\* the summary, and ends.
C9_MissingRoot ==
    ~ dirExists =>
        /\ calls = <<>>
        /\ pc \in {"start", "done"}
        /\ pc = "start" => stdout = <<>>
        /\ pc = "done" =>
             /\ Len(stdout) = 1
             /\ stdout[1].kind = "nao encontrado"
             /\ stdout[1].dir = entities_dir

C9_Witness == ~ dirExists /\ pc = "done"

-----------------------------------------------------------------------------
(* C2 *)

\* index e holds the first thing of its line that is no whitespace
FirstOnLine(s, e) ==
    \A j \in 1..(e - 1) :
        (\A m \in j..(e - 1) : s[m] # "nl") => s[j] = "sp"

\* after index e come whitespace with a newline and a doc-comment opener or
\* 'public enum', or whitespace only up to the end of the text
EndsTypeBody(s, e) ==
    LET f == RunEnd(s, e + 1)
    IN \/ f > Len(s)
       \/ /\ s[f] \in {"doc", "enum"}
          /\ \E m \in (e + 1)..(f - 1) : s[m] = "nl"

HasClosingBrace(s) ==
    \E e \in 1..Len(s) :
        s[e] = "rb" /\ FirstOnLine(s, e) /\ EndsTypeBody(s, e)

\* C2: a text with 'ISoftDeletableEntity', without 'public bool Excluido'
\* and with a closing brace that starts its line and is followed by a doc
\* comment, by 'public enum' or by the end of the text (a newline after the
\* brace or none) holds 'public bool Excluido' after one call.
C2_GapClosure ==
    \A k \in 1..Len(calls) :
        ( /\ Contains(calls[k].original, MARKER_SOFT)
          /\ ~ Contains(calls[k].original, SIG_SOFT)
          /\ HasClosingBrace(calls[k].original) )
        => Contains(OutputOf(k), SIG_SOFT)

-----------------------------------------------------------------------------
(* C3 *)

\* C3: a text with both marker names, neither signature and an insertion
\* point holds, after one call, both templates whole, the soft-delete one
\* before the archivable one.
C3_BothTemplatesInOrder ==
    \A k \in 1..Len(calls) :
        LET o == calls[k].original
            out == OutputOf(k)
        IN ( /\ Contains(o, MARKER_SOFT) /\ Contains(o, MARKER_ARCH)
             /\ ~ Contains(o, SIG_SOFT) /\ ~ Contains(o, SIG_ARCH)
             /\ Search(ImportStep(o)).found )
           => /\ Occurrences(out, SOFT_DELETE_TEMPLATE) # {}
              /\ Occurrences(out, ARCHIVABLE_TEMPLATE) # {}
              /\ \A i \in Occurrences(out, SOFT_DELETE_TEMPLATE) :
                   \A j \in Occurrences(out, ARCHIVABLE_TEMPLATE) :
                       i + Len(SOFT_DELETE_TEMPLATE) <= j

-----------------------------------------------------------------------------
(* C4 *)

\* the braces of s[a..b]: opened minus closed
Depth(s, a, b) ==
    Cardinality({ i \in a..b : s[i] = "lb" })
        - Cardinality({ i \in a..b : s[i] = "rb" })

\* every closing brace closes an open one, and none stays open
Balanced(s) ==
    /\ \A b \in 1..Len(s) : Depth(s, 1, b) >= 0
    /\ Depth(s, 1, Len(s)) = 0

\* The closing brace of the primary type: the type is the first declaration
\* that names a marker interface, its body opens at the next { and ends at
\* the } that brings the depth back to 0.  0 if there is none.
TypeClose(s) ==
    LET named == { i \in 1..Len(s) : s[i] \in {"ISoft", "IArch"} }
        opens == { i \in 1..Len(s) : s[i] = "lb" /\ named # {} /\ i > Min(named) }
        closes == { j \in 1..Len(s) :
                      /\ opens # {}
                      /\ j > Min(opens)
                      /\ s[j] = "rb"
                      /\ Depth(s, Min(opens), j) = 0 }
    IN IF closes = {} THEN 0 ELSE Min(closes)

\* the closing brace of the line the template goes in front of
BraceAtInsertion(content) ==
    RunEnd(content, Search(content).start + Search(content).group1 + 2)

\* C4: in a text whose braces balance, a template that is inserted goes in
\* front of the line of the closing brace of the primary type, not of a
\* member's brace nor of a brace outside the type.
C4_InsertBeforeTypeClose ==
    \A k \in 1..Len(calls) :
        LET c0 == ImportStep(calls[k].original)
            c1 == SoftStep(c0)
        IN Balanced(c0) =>
             /\ (NeedsSoft(c0) /\ Search(c0).found)
                  => BraceAtInsertion(c0) = TypeClose(c0)
             /\ (NeedsArch(c1) /\ Search(c1).found)
                  => BraceAtInsertion(c1) = TypeClose(c1)

-----------------------------------------------------------------------------
(* C5 *)

\* C5: the import step gives a text that names a marker and lacks the
\* import line one line more, the import line, after all its using lines
\* and before all its other lines.
C5_ImportAdded ==
    \A k \in 1..Len(calls) :
        LET o == calls[k].original
            lines == Split(ImportStep(o))
        IN NeedsImport(o) =>
             /\ Len(lines) = Len(Split(o)) + 1
             /\ \E p \in 1..Len(lines) :
                  /\ lines[p] = IMPORT_LINE
                  /\ \A q \in 1..(p - 1) :
                       IsUsingLine(lines[q]) /\ lines[q] # IMPORT_LINE
                  /\ \A q \in (p + 1)..Len(lines) : ~ IsUsingLine(lines[q])

-----------------------------------------------------------------------------
(* C6 *)

RECURSIVE EmbedsFrom(_, _, _, _)
\* a[i..] can be read off b[j..] from left to right, skipping elements of b
EmbedsFrom(a, b, i, j) ==
    IF i > Len(a) THEN TRUE
    ELSE LET at == { n \in j..Len(b) : b[n] = a[i] }
         IN at # {} /\ EmbedsFrom(a, b, i + 1, Min(at) + 1)

\* the lines a call may add: the template's own, its first one closing the
\* line it is spliced after
LinesOf(template) == Len(Split(template)) - 1

\* C6: a call leaves the text as it is, or adds to it at most the lines of
\* the two templates and one import line; the lines of the input stay, in
\* their order.
C6_BoundedChange ==
    \A k \in 1..Len(calls) :
        LET o == calls[k].original
            out == OutputOf(k)
        IN \/ out = o
           \/ /\ EmbedsFrom(Split(o), Split(out), 1, 1)
              /\ Len(Split(out)) - Len(Split(o)) \in
                    { a + b + c : a \in {0, 1},
                                  b \in {0, LinesOf(SOFT_DELETE_TEMPLATE)},
                                  c \in {0, LinesOf(ARCHIVABLE_TEMPLATE)} }

-----------------------------------------------------------------------------
(* C10 *)

\* C10: a call on a text that has a marker name without its signature, no
\* import line and no insertion point inserts no template, prints nothing
\* but the line of a processed file, and still writes the file, with its
\* import lines changed and no other, and returns True.
C10_SkipKeepsImportChange ==
    \A k \in 1..Len(calls) :
        LET o == calls[k].original
            out == OutputOf(k)
        IN ( /\ NeedsSoft(o) \/ NeedsArch(o)
             /\ ~ Contains(o, IMPORT_LINE)
             /\ ~ Search(ImportStep(o)).found )
           => /\ NothingInserted(k)
              /\ \A n \in 1..Len(stdout) : stdout[n].kind = "Processado"
              /\ SelectSeq(Split(out), IsOtherLine)
                    = SelectSeq(Split(o), IsOtherLine)
              /\ calls[k].wrote
              /\ calls[k].ret

=============================================================================
